---- MODULE Spec2Model ----
(***************************************************************************)
(* Model of the 3D network topology visualizer: DeviceManager (asset       *)
(* preload, device creation, registry, labels, filtering),                  *)
(* ConnectionManager and the NetworkVisualizer data-loading flow.           *)
(*                                                                          *)
(* JavaScript runs one macrotask at a time and drains the microtask queue   *)
(* before the next macrotask.  An action is therefore one run of code       *)
(* between two awaits; continuations that resume on an already settled      *)
(* promise (the createDevice loop, the caller of a finished loadDevices)    *)
(* run before any I/O completion or UI event (see MicrotaskPending).        *)
(***************************************************************************)
EXTENDS Integers, Sequences, FiniteSets, TLC

VARIABLES
    impl,          \* which DeviceManager class the page loaded
    assetFiles,    \* environment: keys whose .glb file the server delivers
    loadedModels,  \* DeviceManager.loadedModels (Map key -> mesh | null)
    loadCount,     \* number of ImportMeshAsync calls issued per key
    deviceData,    \* DeviceManager.deviceData
    meshes,        \* device/template meshes alive in the scene, by creation order
    planes,        \* label planes alive in the scene, by creation order
    devices,       \* DeviceManager.devices (Map name -> {mesh, info, visible})
    labels,        \* DeviceManager.labels (Map name -> label plane)
    connections,   \* ConnectionManager.connections
    connVisible,   \* ConnectionManager.visible
    tasks,         \* loadDevices invocations and their position
    app,           \* NetworkVisualizer.init / loadNetworkData position
    assetMaterial, \* environment: keys whose imported root mesh carries a material
    materials,     \* emissiveColor of every material alive in the scene
    deviceInfoElement, \* innerHTML of the 'deviceInfo' panel, as its list of rows
    animation,     \* DeviceManager.animationEnabled, the scene's before-render
                   \* callbacks and the frames rendered so far
    labelTrip,     \* history: the arguments of the last toggleLabels calls
    probe,         \* a direct call of a pure method: its argument and result
    selection      \* history: the argument of the last filterByCategories call,
                   \* <<>> before the first

vars == <<impl, assetFiles, loadedModels, loadCount, deviceData, meshes, planes,
          devices, labels, connections, connVisible, tasks, app, assetMaterial,
          materials, deviceInfoElement, animation, labelTrip, probe, selection>>

\* What the session never changes.
envVars == <<impl, assetFiles, assetMaterial>>

\* What only the pointer, animation, direct-call and filter actions change.
uiVars == <<deviceInfoElement, animation, probe, selection>>

\* ------------------------------------------------------------------ bounds

\* Number of direct loadDevices calls a session makes.
MaxLoadCalls == 2

\* Number of part_000 loadDevice calls a session makes.
MaxBasicLoads == 3

\* Number of before-render callbacks startAnimation registers in a session.
MaxCallbacks == 2

\* Number of frames the scene renders in a session.
MaxFrames == 2
MaxTopologyCalls == 2

\* ------------------------------------------------------------- JS values

Undefined == "<undefined>"

\* a || b on numbers: 0 (like undefined and NaN) is falsy.
OrElse(v, d) == IF v = 0 THEN d ELSE v

Enhanced == "DeviceManager.js"
Basic == "part_000"

\* Methods the class bodies define.
DeviceManagerMethods ==
    IF impl = Enhanced
    THEN {"loadDevices", "preloadModels", "createDevice", "detectEndpointType",
          "createModelInstance", "autoPositionDevice", "createLabel",
          "setupDeviceInteraction", "onDeviceClick", "onDeviceHover",
          "getAllDevices", "getDevicesByCategory", "filterByCategories",
          "getVisibleDeviceCount", "getDeviceCount", "toggleLabels",
          "toggleAnimation", "startAnimation"}
    ELSE {"loadDevice", "createLabel", "onDeviceClick", "onDeviceHover",
          "getAllDevices", "getDevicesByCategory", "filterByCategories",
          "getVisibleDeviceCount", "toggleLabels", "toggleAnimation",
          "startAnimation"}

ConnectionManagerMethods ==
    {"createConnection", "toggleVisibility", "getConnectionCount"}

\* ------------------------------------------------------------ strings

RECURSIVE ToLowerFrom(_, _)
LowerChar(c) ==
    CASE c = "A" -> "a" [] c = "B" -> "b" [] c = "C" -> "c" [] c = "D" -> "d"
      [] c = "E" -> "e" [] c = "F" -> "f" [] c = "G" -> "g" [] c = "H" -> "h"
      [] c = "I" -> "i" [] c = "J" -> "j" [] c = "K" -> "k" [] c = "L" -> "l"
      [] c = "M" -> "m" [] c = "N" -> "n" [] c = "O" -> "o" [] c = "P" -> "p"
      [] c = "Q" -> "q" [] c = "R" -> "r" [] c = "S" -> "s" [] c = "T" -> "t"
      [] c = "U" -> "u" [] c = "V" -> "v" [] c = "W" -> "w" [] c = "X" -> "x"
      [] c = "Y" -> "y" [] c = "Z" -> "z" [] OTHER -> c

ToLowerFrom(s, i) ==
    IF i > Len(s) THEN ""
    ELSE LowerChar(SubSeq(s, i, i)) \o ToLowerFrom(s, i + 1)

ToLowerCase(s) == ToLowerFrom(s, 1)

StartsWith(s, p) == Len(s) >= Len(p) /\ SubSeq(s, 1, Len(p)) = p

Includes(s, p) ==
    \E i \in 1..(Len(s) - Len(p) + 1) : SubSeq(s, i, i + Len(p) - 1) = p

\* ------------------------------------------------------------ descriptors

\* A device descriptor.  position is <<>> when absent, else <<x, y, z>>; mac,
\* ip, status and model are "" when absent; type / category are Undefined when
\* absent; vlan, tags, vertexCount and faceCount are <<>> when absent, else
\* <<value>>.
Desc(id, name, type, position) ==
    [id |-> id, name |-> name, type |-> type, category |-> Undefined,
     mac |-> "", position |-> position, ip |-> "", status |-> "", model |-> "",
     vlan |-> <<>>, tags |-> <<>>, vertexCount |-> <<>>, faceCount |-> <<>>]

WithMac(d, mac) == [d EXCEPT !.mac = mac]

WithVlan(d, vlan) == [d EXCEPT !.vlan = <<vlan>>]

\* A manifest entry, as NetworkVisualizer.loadModels hands to loadDevice.
ModelInfo(name, category) ==
    [Desc("", name, Undefined, <<>>) EXCEPT !.category = category]

WithTags(d, tags) == [d EXCEPT !.tags = <<tags>>, !.vertexCount = <<8>>, !.faceCount = <<12>>]

sampleDevices ==
    << Desc("fw1", "FortiGate-100F", "firewall", <<0, 2, 0>>),
       Desc("sw1", "FortiSwitch-148F", "switch", <<-8, 1, 0>>),
       Desc("sw2", "FortiSwitch-148F", "switch", <<8, 1, 0>>),
       Desc("ap1", "FortiAP-431F", "access_point", <<-12, 3, 5>>),
       Desc("ap2", "FortiAP-431F", "access_point", <<12, 3, 5>>) >>

sampleConnections ==
    << [from |-> "fw1", to |-> "sw1"], [from |-> "fw1", to |-> "sw2"],
       [from |-> "sw1", to |-> "ap1"], [from |-> "sw2", to |-> "ap2"] >>

\* ------------------------------------------------------------ asset cache

modelPaths ==
    << "firewall", "switch", "access_point", "router", "endpoint-laptop",
       "endpoint-desktop", "endpoint-mobile", "endpoint-server" >>

ModelKeys == {modelPaths[k] : k \in 1..Len(modelPaths)}

\* Map.get result: has = FALSE is a missing entry, mesh = 0 a stored null.
CacheMiss == [has |-> FALSE, mesh |-> 0]
CacheNull == [has |-> TRUE, mesh |-> 0]
CacheMesh(m) == [has |-> TRUE, mesh |-> m]

\* this.loadedModels.has(key) && this.loadedModels.get(key)
TemplateFor(cache, key) ==
    IF key \in ModelKeys /\ cache[key].has /\ cache[key].mesh # 0
    THEN cache[key].mesh
    ELSE 0

\* ------------------------------------------------------------ Map helpers

MapHas(m, name) == \E i \in 1..Len(m) : m[i].name = name
MapIndex(m, name) == CHOOSE i \in 1..Len(m) : m[i].name = name
MapGet(m, name) == m[MapIndex(m, name)]
\* Map.set: a present key keeps its place, a new key goes last.
MapSet(m, entry) ==
    IF MapHas(m, entry.name)
    THEN [m EXCEPT ![MapIndex(m, entry.name)] = entry]
    ELSE Append(m, entry)

\* ------------------------------------------------------- detectEndpointType

macVendors ==
    << [vendor |-> "apple",
        prefixes |-> <<"28:cf:e9", "a4:c3:61", "40:a6:d9", "98:01:a7">>],
       [vendor |-> "samsung", prefixes |-> <<"e8:50:8b", "ac:c1:ee", "38:b1:db">>],
       [vendor |-> "dell", prefixes |-> <<"10:9a:dd", "18:03:73", "84:2b:2b">>],
       [vendor |-> "hp", prefixes |-> <<"28:cf:e9", "3c:d9:2b", "f0:4d:a5">>],
       [vendor |-> "lenovo", prefixes |-> <<"70:72:3c", "00:1a:6b", "f4:ce:46">>] >>

\* Indices of the vendors one of whose prefixes starts mac.
VendorHits(mac) ==
    {v \in 1..Len(macVendors) :
        \E p \in 1..Len(macVendors[v].prefixes) :
            StartsWith(mac, macVendors[v].prefixes[p])}

\* The name keywords of detectEndpointType and their subtype, in the order
\* the if / else-if chain tests them.
nameGroups ==
    << [subtype |-> "laptop", keywords |-> {"laptop", "notebook", "macbook"}],
       [subtype |-> "desktop", keywords |-> {"desktop", "pc", "tower"}],
       [subtype |-> "mobile", keywords |-> {"phone", "mobile", "iphone", "android"}] >>

\* detectEndpointType with the name patterns tested before the vendor table.
detectEndpointTypeNameFirst(deviceInfo) ==
    LET name == ToLowerCase(IF deviceInfo.name = Undefined THEN "" ELSE deviceInfo.name)
        mac == ToLowerCase(deviceInfo.mac)
        hits == VendorHits(mac)
        first == CHOOSE v \in hits : \A w \in hits : v <= w
        groups == {g \in 1..Len(nameGroups) :
                      \E k \in nameGroups[g].keywords : Includes(name, k)}
    IN  IF groups # {}
        THEN nameGroups[CHOOSE g \in groups : \A h \in groups : g <= h].subtype
        ELSE IF hits # {}
        THEN (IF macVendors[first].vendor = "apple" THEN "laptop" ELSE "desktop")
        ELSE "desktop"

detectEndpointType(deviceInfo) ==
    LET name == ToLowerCase(IF deviceInfo.name = Undefined THEN "" ELSE deviceInfo.name)
        mac == ToLowerCase(deviceInfo.mac)
        hits == VendorHits(mac)
        first == CHOOSE v \in hits : \A w \in hits : v <= w
    IN  IF hits # {}
        THEN (IF macVendors[first].vendor = "apple" THEN "laptop" ELSE "desktop")
        ELSE IF Includes(name, "laptop") \/ Includes(name, "notebook")
                \/ Includes(name, "macbook")
        THEN "laptop"
        ELSE IF Includes(name, "desktop") \/ Includes(name, "pc")
                \/ Includes(name, "tower")
        THEN "desktop"
        ELSE IF Includes(name, "phone") \/ Includes(name, "mobile")
                \/ Includes(name, "iphone") \/ Includes(name, "android")
        THEN "mobile"
        ELSE "desktop"

\* ------------------------------------------------------------ scene objects

NoId == ""

\* The descriptor of a mesh no handler was registered on.
NoDescriptor == Desc(NoId, Undefined, Undefined, <<>>)

\* emissiveColor values: black, the colour the asset file gives, and the two
\* hover tints (0.1, 0.2, 0.1) and (0.2, 0.2, 0.2).
EmissiveZero == "0,0,0"
EmissiveAsset == "asset"
HoverTint == IF impl = Enhanced THEN "0.1,0.2,0.1" ELSE "0.2,0.2,0.2"

\* The DeviceManager state one operation reads and writes.
DM == [meshes |-> meshes, planes |-> planes, devices |-> devices, labels |-> labels,
       materials |-> materials]

\* scaling is in tenths (10 is the unit scale); material is 0 for none, else an
\* index of materials; position holds whole numbers and floatY the hundredths
\* to add to position.y (the animation's drift, the 0.5 of
\* createSampleTopology); rotationY is rotation.y in hundredths; pointer is the
\* last pointer event the mesh's action manager received.
NewMesh(name, kind) ==
    [name |-> name, kind |-> kind, enabled |-> TRUE, position |-> <<0, 0, 0>>,
     placed |-> "none", interactive |-> FALSE, onPick |-> NoDescriptor,
     scaling |-> 10, material |-> 0, floatY |-> 0, rotationY |-> 0,
     pointer |-> "none"]

\* sourceMesh.clone(...), position reset to the origin.  A clone shares the
\* material of its source.
createModelInstance(deviceInfo, sourceMesh) ==
    [NewMesh(deviceInfo.name, "clone") EXCEPT !.enabled = sourceMesh.enabled,
                                              !.scaling = sourceMesh.scaling,
                                              !.material = sourceMesh.material]

\* Math.ceil(Math.sqrt(n)) for n >= 1
CeilSqrt(n) == CHOOSE g \in 1..n : g * g >= n /\ (g - 1) * (g - 1) < n

Spacing == 4

\* (c - gridSize / 2) * spacing, exact because spacing is even
GridCoord(c, gridSize) == ((2 * c - gridSize) * Spacing) \div 2

autoPositionDevice(mesh, index) ==
    LET gridSize == CeilSqrt(index + 1)
        row == index \div gridSize
        col == index % gridSize
    IN  [mesh EXCEPT !.position = <<GridCoord(col, gridSize), 1, GridCoord(row, gridSize)>>,
                     !.placed = "auto"]

\* createDevice without its setupDeviceInteraction call.
setupDeviceInteractionSkipped(mesh, deviceInfo) == mesh

\* mesh.actionManager with the click action on deviceInfo and the pointer-over
\* and pointer-out actions on the mesh.
setupDeviceInteraction(mesh, deviceInfo) ==
    [mesh EXCEPT !.interactive = TRUE, !.onPick = deviceInfo]

\* A label plane parented to the mesh, stored under the device name.
createLabel(s, meshId, text) ==
    [s EXCEPT !.planes = Append(s.planes, [parent |-> meshId, enabled |-> TRUE, text |-> text]),
              !.labels = MapSet(s.labels, [name |-> text, plane |-> Len(s.planes) + 1])]

\* ------------------------------------------------------------ createDevice

\* The procedural builder createDevice calls when it has no template.
ProceduralMethod(deviceInfo) ==
    CASE deviceInfo.type = "endpoint" -> "createEndpointModel"
      [] deviceInfo.type = "firewall" -> "createFortiGateModel"
      [] deviceInfo.type = "switch" -> "createFortiSwitchModel"
      [] deviceInfo.type = "access_point" -> "createFortiAPModel"
      [] deviceInfo.type = "router" -> "createRouterModel"
      [] OTHER -> "createGenericDeviceModel"

\* The cache key createDevice looks the descriptor up under.
ModelKeyOf(deviceInfo) ==
    IF deviceInfo.type = "endpoint"
    THEN "endpoint-" \o detectEndpointType(deviceInfo)
    ELSE deviceInfo.type

\* Position step of createDevice.
PositionDevice(mesh, deviceInfo, size) ==
    IF deviceInfo.position # <<>>
    THEN [mesh EXCEPT !.position = <<OrElse(deviceInfo.position[1], 0),
                                     OrElse(deviceInfo.position[2], 1),
                                     OrElse(deviceInfo.position[3], 0)>>,
                      !.placed = "explicit"]
    ELSE autoPositionDevice(mesh, size)

\* The try block of createDevice.  With a template the device is a clone of
\* it.  Without one createDevice calls a procedural builder; the class defines
\* none of them (DeviceManagerMethods), so the call raises a TypeError before
\* anything is written (threw).
CreateDeviceTry(s, cache, deviceInfo) ==
    LET template == TemplateFor(cache, ModelKeyOf(deviceInfo))
        builder == ProceduralMethod(deviceInfo)
    IN  CASE template = 0 /\ builder \notin DeviceManagerMethods ->
                [threw |-> TRUE, template |-> FALSE, s |-> s]
          [] template # 0 ->
                LET made == createModelInstance(deviceInfo, s.meshes[template])
                    mesh == setupDeviceInteraction(
                                PositionDevice(made, deviceInfo, Len(s.devices)),
                                deviceInfo)
                    id == Len(s.meshes) + 1
                    s1 == [s EXCEPT !.meshes = Append(s.meshes, mesh),
                                    !.devices = MapSet(s.devices,
                                        [name |-> deviceInfo.name, mesh |-> id,
                                         info |-> deviceInfo, visible |-> TRUE])]
                IN  [threw |-> FALSE, template |-> TRUE,
                     s |-> createLabel(s1, id, deviceInfo.name)]

\* createDevice without its try/catch: the TypeError leaves createDevice.
createDeviceNoCatch(s, cache, deviceInfo) ==
    LET r == CreateDeviceTry(s, cache, deviceInfo)
    IN  [rejected |-> r.threw,
         s |-> r.s,
         log |-> [name |-> deviceInfo.name, template |-> r.template,
                  result |-> IF r.threw THEN "failed" ELSE "created"]]

\* createDevice: the try block, and the catch that logs and swallows the error.
\* result is what the console shows for the descriptor.
createDevice(s, cache, deviceInfo) ==
    LET r == CreateDeviceTry(s, cache, deviceInfo)
    IN  [rejected |-> FALSE,
         s |-> r.s,
         log |-> [name |-> deviceInfo.name, template |-> r.template,
                  result |-> IF r.threw THEN "failed" ELSE "created"]]

\* part_000 loadDevice: a box mesh with the category colour, never a template.
loadDeviceBox(s, modelInfo) ==
    LET id == Len(s.meshes) + 1
        mesh == [NewMesh(modelInfo.name, "box") EXCEPT
                    !.interactive = TRUE, !.onPick = modelInfo,
                    !.material = Len(s.materials) + 1]
        s1 == [s EXCEPT !.meshes = Append(s.meshes, mesh),
                        !.materials = Append(s.materials, EmissiveZero),
                        !.devices = MapSet(s.devices,
                            [name |-> modelInfo.name, mesh |-> id,
                             info |-> modelInfo, visible |-> TRUE])]
    IN  createLabel(s1, id, modelInfo.name)

\* ------------------------------------------------------------ filtering

\* The field a DeviceManager class filters on.
CategoryOf(info) == IF impl = Enhanced THEN info.type ELSE info.category

\* label.parent.isEnabled names the method without calling it: a function
\* object, truthy whatever the parent's state.
ParentIsEnabledRef == TRUE

\* ShouldShow without the wildcard.
ShouldShowNoWildcard(categories, info) == CategoryOf(info) \in categories

ShouldShow(categories, info) ==
    "all" \in categories \/ CategoryOf(info) \in categories

\* filterByCategories without device.mesh.setEnabled(shouldShow).
FilterStateKeepsMesh(s, categories) ==
    LET show(name) == ShouldShow(categories, MapGet(s.devices, name).info)
        labelOf(p) == {i \in 1..Len(s.labels) :
                          s.labels[i].plane = p /\ MapHas(s.devices, s.labels[i].name)}
    IN  [s EXCEPT
          !.devices = [i \in 1..Len(s.devices) |->
                          [s.devices[i] EXCEPT !.visible = show(s.devices[i].name)]],
          !.planes = [p \in 1..Len(s.planes) |->
                          IF labelOf(p) # {}
                          THEN [s.planes[p] EXCEPT !.enabled =
                                   show(s.labels[CHOOSE i \in labelOf(p) : TRUE].name)
                                   /\ ParentIsEnabledRef]
                          ELSE s.planes[p]]]

\* filterByCategories: the visible flag, the mesh and the label of every
\* registered device.
FilterState(s, categories) ==
    LET show(name) == ShouldShow(categories, MapGet(s.devices, name).info)
        owner(m) == {i \in 1..Len(s.devices) : s.devices[i].mesh = m}
        labelOf(p) == {i \in 1..Len(s.labels) :
                          s.labels[i].plane = p /\ MapHas(s.devices, s.labels[i].name)}
    IN  [s EXCEPT
          !.devices = [i \in 1..Len(s.devices) |->
                          [s.devices[i] EXCEPT !.visible = show(s.devices[i].name)]],
          !.meshes = [m \in 1..Len(s.meshes) |->
                          IF owner(m) # {}
                          THEN [s.meshes[m] EXCEPT !.enabled =
                                   show(s.devices[CHOOSE i \in owner(m) : TRUE].name)]
                          ELSE s.meshes[m]],
          !.planes = [p \in 1..Len(s.planes) |->
                          IF labelOf(p) # {}
                          THEN [s.planes[p] EXCEPT !.enabled =
                                   show(s.labels[CHOOSE i \in labelOf(p) : TRUE].name)
                                   /\ ParentIsEnabledRef]
                          ELSE s.planes[p]]]

\* toggleLabels reading the label's own state instead of its parent's:
\* label.setEnabled(show && label.isEnabled()).
ToggleLabelsOwnState(s, show) ==
    LET inMap(p) == \E i \in 1..Len(s.labels) : s.labels[i].plane = p
    IN  [s EXCEPT
          !.planes = [p \in 1..Len(s.planes) |->
                          IF inMap(p)
                          THEN [s.planes[p] EXCEPT !.enabled = show /\ @]
                          ELSE s.planes[p]]]

\* toggleLabels: every plane of the label map.
ToggleLabelsState(s, show) ==
    LET inMap(p) == \E i \in 1..Len(s.labels) : s.labels[i].plane = p
    IN  [s EXCEPT
          !.planes = [p \in 1..Len(s.planes) |->
                          IF inMap(p)
                          THEN [s.planes[p] EXCEPT !.enabled = show /\ ParentIsEnabledRef]
                          ELSE s.planes[p]]]

\* The names whose label is effectively visible: the plane and the visual it
\* is parented to are both enabled.
LabelsSeen ==
    {labels[i].name : i \in {j \in 1..Len(labels) :
        planes[labels[j].plane].enabled /\ meshes[planes[labels[j].plane].parent].enabled}}

\* History of the toggleLabels calls: shown is the last argument (labels start
\* shown); stage is "off" after toggleLabels(false), "offon" when
\* toggleLabels(true) follows it; before and wasShown are LabelsSeen and shown
\* as they were when that toggleLabels(false) was called.
NoTrip(shown) == [shown |-> shown, stage |-> "none", wasShown |-> TRUE, before |-> {}]

TripOnToggle(show) ==
    IF show
    THEN IF labelTrip.stage = "off"
         THEN [labelTrip EXCEPT !.shown = TRUE, !.stage = "offon"]
         ELSE NoTrip(TRUE)
    ELSE [shown |-> FALSE, stage |-> "off", wasShown |-> labelTrip.shown,
          before |-> LabelsSeen]

getVisibleDeviceCount == Cardinality({i \in 1..Len(devices) : devices[i].visible})

getDeviceCount == Len(devices)

getConnectionCount == Len(connections)

\* getDevicesByCategory: the registry entries of the category, in Map order.
getDevicesByCategory(s, category) ==
    LET ofCategory(i) == CategoryOf(s.devices[i].info) = category
    IN  SelectSeq([i \in 1..Len(s.devices) |-> i], ofCategory)

\* ------------------------------------------------------------ connections

\* ConnectionManager.createConnection: a line from mesh1 to mesh2 through
\* their midpoint at height 0.1 (mid holds twice its x and z), always pushed.
createConnection(conns, s, mesh1, mesh2) ==
    Append(conns,
           [mesh1 |-> mesh1, mesh2 |-> mesh2, visible |-> TRUE, lineEnabled |-> TRUE,
            points |-> <<s.meshes[mesh1].position, s.meshes[mesh2].position>>,
            mid |-> <<s.meshes[mesh1].position[1] + s.meshes[mesh2].position[1],
                      s.meshes[mesh1].position[3] + s.meshes[mesh2].position[3]>>])

\* as.forEach(a => bs.forEach(b => ...)): the pairs in the order visited
Pairs(as, bs) ==
    [k \in 1..(Len(as) * Len(bs)) |->
        <<as[((k - 1) \div Len(bs)) + 1], bs[((k - 1) % Len(bs)) + 1]>>]

\* as.forEach((a, i) => ... bs[i]): one pair per position both lists have
PairsByPosition(as, bs) ==
    [k \in 1..(IF Len(as) < Len(bs) THEN Len(as) ELSE Len(bs)) |-> <<as[k], bs[k]>>]

RECURSIVE LinkAll(_, _, _)
\* if (a.mesh && b.mesh) createConnection(a.mesh, b.mesh), for every pair
LinkAll(conns, s, pairs) ==
    IF pairs = <<>> THEN conns
    ELSE LET a == s.devices[pairs[1][1]].mesh
             b == s.devices[pairs[1][2]].mesh
         IN  LinkAll(IF a # 0 /\ b # 0 THEN createConnection(conns, s, a, b) ELSE conns,
                     s, Tail(pairs))

\* createConnections linking the lists position by position instead of
\* every firewall with every switch.
createConnectionsByPosition(conns, s) ==
    LET firewalls == getDevicesByCategory(s, "firewall")
        switches == getDevicesByCategory(s, "switch")
        accessPoints == getDevicesByCategory(s, "access_point")
    IN  LinkAll(LinkAll(conns, s, PairsByPosition(firewalls, switches)),
                s, PairsByPosition(switches, accessPoints))

\* NetworkVisualizer.createConnections
createConnections(conns, s) ==
    LET firewalls == getDevicesByCategory(s, "firewall")
        switches == getDevicesByCategory(s, "switch")
        accessPoints == getDevicesByCategory(s, "access_point")
    IN  LinkAll(LinkAll(conns, s, Pairs(firewalls, switches)),
                s, Pairs(switches, accessPoints))

\* The grid origin createSampleTopology gives each category.
topologyConfig ==
    << [category |-> "firewall", x |-> 0, z |-> 0],
       [category |-> "switch", x |-> 5, z |-> 0],
       [category |-> "access_point", x |-> -5, z |-> 0],
       [category |-> "router", x |-> 0, z |-> 5] >>

\* The placing part of createSampleTopology: the first three devices of each
\* configured category go to (x + (i - 1) * 2, 0.5, z); the diffuse colour it
\* also sets is not part of the state.
PlaceByCategory(s) ==
    LET rank(c, r) == Cardinality({q \in 1..(r - 1) :
                          CategoryOf(s.devices[q].info) = topologyConfig[c].category})
        cfg(r) == {c \in 1..Len(topologyConfig) :
                      /\ CategoryOf(s.devices[r].info) = topologyConfig[c].category
                      /\ rank(c, r) < 3}
        owner(m) == {r \in 1..Len(s.devices) : s.devices[r].mesh = m /\ cfg(r) # {}}
        place(m, r) ==
            LET c == CHOOSE c \in cfg(r) : TRUE
            IN  [s.meshes[m] EXCEPT
                    !.position = <<topologyConfig[c].x + (rank(c, r) - 1) * 2, 0,
                                   topologyConfig[c].z>>,
                    !.floatY = 50,
                    !.placed = "topology"]
    IN  [s EXCEPT !.meshes = [m \in 1..Len(s.meshes) |->
            IF owner(m) # {} THEN place(m, CHOOSE r \in owner(m) : TRUE)
            ELSE s.meshes[m]]]

\* ConnectionManager.toggleVisibility
ToggleVisibilityState(conns, show) ==
    [c \in 1..Len(conns) |-> [conns[c] EXCEPT !.lineEnabled = show]]

\* ------------------------------------------------------------ interaction

\* onDeviceHover: the scaling is assigned, and the emissive colour of the
\* mesh's material when it has one.
HoverState(s, m, isHovering) ==
    LET material == s.meshes[m].material
    IN  [s EXCEPT
          !.meshes[m].scaling = IF isHovering THEN 11 ELSE 10,
          !.meshes[m].pointer = IF isHovering THEN "over" ELSE "out",
          !.materials = IF material # 0
                        THEN [s.materials EXCEPT ![material] =
                                 IF isHovering THEN HoverTint ELSE EmissiveZero]
                        ELSE s.materials]

\* `${value}` of a string field.
Rendered(v) == IF v = Undefined THEN "undefined" ELSE v

\* `${value}` of a number field.
RenderedNumber(v) == IF v = <<>> THEN "undefined" ELSE ToString(v[1])

Row(label, value) == [label |-> label, value |-> value]

\* if (deviceInfo.field) { infoHtml += ... } for a string field
WhenTruthy(label, v) == IF v \notin {"", Undefined} THEN <<Row(label, v)>> ELSE <<>>

\* if (deviceInfo.vlan) { infoHtml += ... }: 0 is falsy
WhenTruthyNumber(label, v) ==
    IF v # <<>> /\ v[1] # 0 THEN <<Row(label, ToString(v[1]))>> ELSE <<>>

\* The rows onDeviceClick of DeviceManager.js writes to the panel.
DetailRows(deviceInfo) ==
    <<Row("h4", Rendered(deviceInfo.name)), Row("Type", Rendered(deviceInfo.type))>>
      \o WhenTruthy("MAC Address", deviceInfo.mac)
      \o WhenTruthy("IP Address", deviceInfo.ip)
      \o WhenTruthy("Status", deviceInfo.status)
      \o WhenTruthy("Model", deviceInfo.model)
      \o WhenTruthyNumber("VLAN", deviceInfo.vlan)

RECURSIVE Join(_)
\* tags.join(', ')
Join(tags) ==
    IF tags = <<>> THEN ""
    ELSE IF Len(tags) = 1 THEN tags[1]
    ELSE tags[1] \o ", " \o Join(Tail(tags))

\* The rows onDeviceClick of part_000 writes to the panel.
BasicDetailRows(modelInfo) ==
    <<Row("h4", Rendered(modelInfo.name)),
      Row("Category", Rendered(modelInfo.category)),
      Row("Tags", Join(modelInfo.tags[1])),
      Row("Vertices", RenderedNumber(modelInfo.vertexCount)),
      Row("Faces", RenderedNumber(modelInfo.faceCount))>>

\* The panel after onDeviceClick.  In part_000 modelInfo.tags.join raises a
\* TypeError when the entry has no tags, before innerHTML is assigned.
ClickPanel(panel, deviceInfo) ==
    IF impl = Enhanced THEN DetailRows(deviceInfo)
    ELSE IF deviceInfo.tags = <<>> THEN panel
    ELSE BasicDetailRows(deviceInfo)

\* The before-render callback without its device.visible test.
AnimateStateAll(s, d) ==
    LET moved(m) == \E i \in 1..Len(s.devices) : s.devices[i].mesh = m
    IN  [s EXCEPT !.meshes = [m \in 1..Len(s.meshes) |->
            IF moved(m)
            THEN IF impl = Enhanced
                 THEN [s.meshes[m] EXCEPT !.floatY = @ + d]
                 ELSE [s.meshes[m] EXCEPT !.rotationY = @ + 1]
            ELSE s.meshes[m]]]

\* One run of the before-render callback startAnimation registered, with
\* animationEnabled true: every visible device floats by
\* sin(Date.now() * 0.001) * 0.01 (d hundredths), in part_000 turns by 0.01.
AnimateState(s, d) ==
    LET moved(m) == \E i \in 1..Len(s.devices) :
                        s.devices[i].mesh = m /\ s.devices[i].visible
    IN  [s EXCEPT !.meshes = [m \in 1..Len(s.meshes) |->
            IF moved(m)
            THEN IF impl = Enhanced
                 THEN [s.meshes[m] EXCEPT !.floatY = @ + d]
                 ELSE [s.meshes[m] EXCEPT !.rotationY = @ + 1]
            ELSE s.meshes[m]]]

RECURSIVE RunCallbacks(_, _, _)
\* scene.render() runs the n registered before-render callbacks in turn.
RunCallbacks(s, n, d) ==
    IF n = 0 THEN s ELSE RunCallbacks(AnimateState(s, d), n - 1, d)

\* ------------------------------------------------------------ scheduling

NewTask(batch) == [pc |-> "preload", k |-> 1, batch |-> batch, i |-> 1, log |-> <<>>]

AwaitingLoad == {"loadTopologyData", "loadSampleData"}

\* A continuation is queued on a settled promise: it runs before any I/O
\* completion or UI event.
MicrotaskPending ==
    \/ \E t \in 1..Len(tasks) : tasks[t].pc = "create"
    \/ app.pc \in AwaitingLoad /\ tasks[app.task].pc = "done"
    \/ app.pc = "loadModels"

SetDM(s) ==
    /\ meshes' = s.meshes
    /\ materials' = s.materials
    /\ planes' = s.planes
    /\ devices' = s.devices
    /\ labels' = s.labels

\* loadDevices up to its first await: deviceData is set and preloadModels
\* issues the import of the first key.
StartLoadDevices(batch) ==
    /\ deviceData' = batch
    /\ tasks' = Append(tasks, NewTask(batch))
    /\ loadCount' = [loadCount EXCEPT ![modelPaths[1]] = @ + 1]

\* ------------------------------------------------------------ actions

\* A caller invokes deviceManager.loadDevices(batch), once the call before
\* it has returned.
loadDevices(batch) ==
    /\ impl = Enhanced
    /\ \A t \in 1..Len(tasks) : tasks[t].pc = "done"
    /\ Len(tasks) < MaxLoadCalls
    /\ StartLoadDevices(batch)
    /\ UNCHANGED <<envVars, uiVars, loadedModels, meshes, materials, planes, devices,
                   labels, labelTrip, connections, connVisible, app>>

\* ImportMeshAsync of task t's current key settles; preloadModels stores the
\* outcome and issues the next import, or returns to loadDevices.
ImportMeshSettles(t) ==
    LET key == modelPaths[tasks[t].k]
        ok == key \in assetFiles
        last == tasks[t].k = Len(modelPaths)
    IN  /\ tasks[t].pc = "preload"
        /\ ~MicrotaskPending
        /\ IF ok
           THEN /\ meshes' = Append(meshes,
                        [NewMesh(key, "template") EXCEPT !.material =
                            IF key \in assetMaterial THEN Len(materials) + 1 ELSE 0])
                /\ materials' = IF key \in assetMaterial
                                THEN Append(materials, EmissiveAsset)
                                ELSE materials
                /\ loadedModels' = [loadedModels EXCEPT ![key] = CacheMesh(Len(meshes) + 1)]
           ELSE /\ meshes' = meshes
                /\ materials' = materials
                /\ loadedModels' = [loadedModels EXCEPT ![key] = CacheNull]
        /\ IF last
           THEN /\ tasks' = [tasks EXCEPT ![t].pc =
                                IF tasks[t].batch = <<>> THEN "done" ELSE "create"]
                /\ loadCount' = loadCount
           ELSE /\ tasks' = [tasks EXCEPT ![t].k = @ + 1]
                /\ loadCount' = [loadCount EXCEPT ![modelPaths[tasks[t].k + 1]] = @ + 1]
        /\ UNCHANGED <<envVars, uiVars, deviceData, planes, devices, labels,
                       connections, connVisible, app, labelTrip>>

\* One turn of the loop of loadDevices: await this.createDevice(deviceInfo).
CreateDeviceStep(t) ==
    LET deviceInfo == tasks[t].batch[tasks[t].i]
        r == createDevice(DM, loadedModels, deviceInfo)
    IN  /\ tasks[t].pc = "create"
        /\ SetDM(r.s)
        /\ tasks' = [tasks EXCEPT
                        ![t].log = Append(@, r.log),
                        ![t].i = @ + 1,
                        ![t].pc = IF r.rejected THEN "rejected"
                                  ELSE IF tasks[t].i = Len(tasks[t].batch) THEN "done"
                                  ELSE "create"]
        /\ labelTrip' = NoTrip(labelTrip.shown)
        /\ UNCHANGED <<envVars, uiVars, loadedModels, loadCount, deviceData,
                       connections, connVisible, app>>

\* A caller invokes the part_000 deviceManager.loadDevice(modelInfo).
loadDevice(modelInfo) ==
    /\ impl = Basic
    /\ Len(meshes) < MaxBasicLoads
    /\ SetDM(loadDeviceBox(DM, modelInfo))
    /\ labelTrip' = NoTrip(labelTrip.shown)
    /\ UNCHANGED <<envVars, uiVars, loadedModels, loadCount, deviceData,
                   connections, connVisible, tasks, app>>

\* The category checkboxes change: updateDeviceVisibility -> filterByCategories.
filterByCategories(categories) ==
    /\ ~MicrotaskPending
    /\ SetDM(FilterState(DM, categories))
    /\ labelTrip' = NoTrip(labelTrip.shown)
    /\ selection' = <<categories>>
    /\ UNCHANGED <<envVars, deviceInfoElement, animation, probe, loadedModels, loadCount, deviceData,
                   connections, connVisible, tasks, app>>

\* The showLabels checkbox changes.
toggleLabels(show) ==
    /\ ~MicrotaskPending
    /\ SetDM(ToggleLabelsState(DM, show))
    /\ labelTrip' = TripOnToggle(show)
    /\ UNCHANGED <<envVars, uiVars, loadedModels, loadCount, deviceData,
                   connections, connVisible, tasks, app>>

\* The pointer enters (isHovering) or leaves the mesh m: OnPointerOverTrigger /
\* OnPointerOutTrigger -> onDeviceHover(mesh, isHovering).
onDeviceHover(m, isHovering) ==
    /\ ~MicrotaskPending
    /\ meshes[m].interactive
    /\ isHovering => meshes[m].enabled
    /\ SetDM(HoverState(DM, m, isHovering))
    /\ UNCHANGED <<envVars, uiVars, loadedModels, loadCount, deviceData, labelTrip,
                   connections, connVisible, tasks, app>>

\* The mesh m is picked: OnPickTrigger -> onDeviceClick(deviceInfo).
onDeviceClick(m) ==
    /\ ~MicrotaskPending
    /\ meshes[m].interactive
    /\ meshes[m].enabled
    /\ deviceInfoElement' = ClickPanel(deviceInfoElement, meshes[m].onPick)
    /\ UNCHANGED <<envVars, selection, animation, probe, loadedModels, loadCount, deviceData,
                   meshes, materials, planes, devices, labels, labelTrip,
                   connections, connVisible, tasks, app>>

\* The animateDevices checkbox changes: toggleAnimation(enabled), which calls
\* startAnimation when enabled.
toggleAnimation(enabled) ==
    /\ ~MicrotaskPending
    /\ enabled => animation.callbacks < MaxCallbacks
    /\ animation' = [animation EXCEPT
                        !.enabled = enabled,
                        !.callbacks = IF enabled THEN @ + 1 ELSE @]
    /\ UNCHANGED <<envVars, selection, deviceInfoElement, probe, loadedModels, loadCount,
                   deviceData, meshes, materials, planes, devices, labels, labelTrip,
                   connections, connVisible, tasks, app>>

\* scene.render() of one frame: the before-render callbacks run; each returns
\* at once while animationEnabled is false.
RenderFrame(d) ==
    /\ ~MicrotaskPending
    /\ animation.frames < MaxFrames
    /\ animation' = [animation EXCEPT !.frames = @ + 1]
    /\ SetDM(IF animation.enabled THEN RunCallbacks(DM, animation.callbacks, d) ELSE DM)
    /\ UNCHANGED <<envVars, selection, deviceInfoElement, probe, loadedModels, loadCount,
                   deviceData, labelTrip, connections, connVisible, tasks, app>>

\* A caller invokes deviceManager.detectEndpointType(deviceInfo).
DetectEndpointTypeCall(deviceInfo) ==
    /\ impl = Enhanced
    /\ probe' = [arg |-> deviceInfo, result |-> detectEndpointType(deviceInfo)]
    /\ UNCHANGED <<envVars, selection, deviceInfoElement, animation, loadedModels, loadCount,
                   deviceData, meshes, materials, planes, devices, labels, labelTrip,
                   connections, connVisible, tasks, app>>

\* ----------------------------------------- NetworkVisualizer (second class)

\* init: engine, scene, managers, event handlers, render loop, then
\* loadNetworkData up to its fetch.
init ==
    /\ impl = Enhanced
    /\ app.pc = "constructed"
    /\ app' = [app EXCEPT !.pc = "fetch"]
    /\ UNCHANGED <<envVars, uiVars, loadedModels, loadCount, deviceData, meshes,
                   materials, planes, devices, labels, labelTrip, connections,
                   connVisible, tasks>>

\* fetch('babylon_topology.json') settles.  "ok": response.ok and the body
\* parses to doc; "notok": response.ok is false; "throw": fetch or json()
\* rejects.  loadNetworkData goes on to its next await, inside loadDevices.
FetchSettles(outcome, doc) ==
    /\ app.pc = "fetch"
    /\ ~MicrotaskPending
    /\ StartLoadDevices(IF outcome = "ok" THEN doc.models ELSE sampleDevices)
    /\ app' = [app EXCEPT
                  !.pc = IF outcome = "ok" THEN "loadTopologyData" ELSE "loadSampleData",
                  !.task = Len(tasks) + 1,
                  !.inTry = outcome # "throw",
                  !.fetch = outcome,
                  !.doc = IF outcome = "ok" THEN doc ELSE @]
    /\ UNCHANGED <<envVars, uiVars, loadedModels, meshes, materials, planes, devices,
                   labels, labelTrip, connections, connVisible>>

\* The pairs loadTopologyData / loadSampleData hands to loadConnections.
PairsToLoad == IF app.pc = "loadTopologyData" THEN app.doc.connections ELSE sampleConnections

\* loadDevices has returned to loadTopologyData / loadSampleData, which calls
\* this.connectionManager.loadConnections(...).  ConnectionManager defines no
\* such method: the call raises a TypeError.  Inside the try of
\* loadNetworkData the catch block runs loadSampleData; from the catch block
\* itself the error leaves loadNetworkData and init as a rejected promise.
LoadConnectionsCall ==
    /\ app.pc \in AwaitingLoad
    /\ tasks[app.task].pc = "done"
    /\ "loadConnections" \notin ConnectionManagerMethods
    /\ IF app.inTry
       THEN /\ StartLoadDevices(sampleDevices)
            /\ app' = [app EXCEPT !.pc = "loadSampleData", !.task = Len(tasks) + 1,
                                  !.inTry = FALSE,
                                  !.calls = Append(@, [pairs |-> PairsToLoad, raised |-> TRUE])]
       ELSE /\ app' = [app EXCEPT !.pc = "rejected",
                                  !.calls = Append(@, [pairs |-> PairsToLoad, raised |-> TRUE])]
            /\ UNCHANGED <<deviceData, tasks, loadCount>>
    /\ UNCHANGED <<envVars, uiVars, loadedModels, meshes, materials, planes, devices,
                   labels, labelTrip, connections, connVisible>>

\* setupLighting creates three point lights for updateDynamicLights.
DynamicLights == 3

\* updateDynamicLights: for every light whose index has a registry entry it
\* evaluates device.position.clone(); the read of a field the entry does not
\* have gives undefined and the call on it raises a TypeError.
updateDynamicLightsRaises(s) ==
    \E index \in 0..(DynamicLights - 1) :
        /\ index < Len(s.devices)
        /\ "position" \notin DOMAIN s.devices[index + 1]

\* One turn of the callback startRenderLoop hands to engine.runRenderLoop:
\* updateDynamicLights, the device and connection counts of the stats panel,
\* then scene.render() with its before-render callbacks.  An error leaves
\* the callback at the statement that raised it.
RenderLoopFrame(d) ==
    /\ impl = Enhanced
    /\ app.pc # "constructed"
    /\ ~MicrotaskPending
    /\ animation.frames < MaxFrames
    /\ IF updateDynamicLightsRaises(DM)
       THEN /\ app' = [app EXCEPT !.renderLoop = "TypeError"]
            /\ UNCHANGED <<animation, meshes, materials, planes, devices, labels>>
       ELSE /\ app' = [app EXCEPT !.renderLoop = "ok",
                                  !.stats = <<getVisibleDeviceCount, getConnectionCount>>]
            /\ animation' = [animation EXCEPT !.frames = @ + 1]
            /\ SetDM(IF animation.enabled
                     THEN RunCallbacks(DM, animation.callbacks, d) ELSE DM)
    /\ UNCHANGED <<envVars, selection, deviceInfoElement, probe, loadedModels,
                   loadCount, deviceData, labelTrip, connections, connVisible, tasks>>

\* ------------------------------------------ NetworkVisualizer (first class)

\* init of the first NetworkVisualizer: engine, scene, managers, then
\* loadModels up to its fetch of models/manifest.json.
initModels ==
    /\ app.pc = "constructed"
    /\ app' = [app EXCEPT !.pc = "manifest"]
    /\ UNCHANGED <<envVars, uiVars, loadedModels, loadCount, deviceData, meshes,
                   materials, planes, devices, labels, labelTrip, connections,
                   connVisible, tasks>>

\* createSampleTopology: returns at once on an empty registry, otherwise
\* places the devices and calls createConnections; after is the visualizer's
\* own state once it has returned.
SampleTopology(after) ==
    IF Len(devices) = 0
    THEN /\ app' = after
         /\ UNCHANGED <<meshes, materials, planes, devices, labels, labelTrip,
                        connections>>
    ELSE /\ SetDM(PlaceByCategory(DM))
         /\ connections' = createConnections(connections, PlaceByCategory(DM))
         /\ app' = [after EXCEPT !.topologyCalls = @ + 1]
         /\ UNCHANGED labelTrip

\* loadModels when its loop reaches manifest.models[k - 1]: it calls
\* deviceManager.loadDevice, which DeviceManager.js does not define (the
\* TypeError goes to the catch of loadModels); past the last entry it calls
\* createSampleTopology.
LoadModelsTurn(manifest, k) ==
    IF k <= Len(manifest)
    THEN IF "loadDevice" \in DeviceManagerMethods
         THEN /\ SetDM(loadDeviceBox(DM, manifest[k]))
              /\ labelTrip' = NoTrip(labelTrip.shown)
              /\ app' = [app EXCEPT !.pc = "loadModels", !.manifest = manifest,
                                    !.i = k, !.fetch = "ok"]
              /\ UNCHANGED connections
         ELSE /\ app' = [app EXCEPT !.pc = "done", !.manifest = manifest, !.fetch = "ok"]
              /\ UNCHANGED <<meshes, materials, planes, devices, labels, labelTrip,
                             connections>>
    ELSE SampleTopology([app EXCEPT !.pc = "done", !.manifest = manifest, !.fetch = "ok"])

\* fetch('models/manifest.json') settles.  "ok": the body parses to a manifest
\* and the loop starts; "throw": fetch or json() rejects, caught by loadModels.
ManifestSettles(outcome, manifest) ==
    /\ app.pc = "manifest"
    /\ IF outcome = "ok"
       THEN LoadModelsTurn(manifest, 1)
       ELSE /\ app' = [app EXCEPT !.pc = "done", !.fetch = outcome]
            /\ UNCHANGED <<meshes, materials, planes, devices, labels, labelTrip,
                           connections>>
    /\ UNCHANGED <<envVars, uiVars, loadedModels, loadCount, deviceData, connVisible,
                   tasks>>

\* loadModels resumes after await this.deviceManager.loadDevice(modelInfo).
LoadModelsResume ==
    /\ app.pc = "loadModels"
    /\ LoadModelsTurn(app.manifest, app.i + 1)
    /\ UNCHANGED <<envVars, uiVars, loadedModels, loadCount, deviceData, connVisible,
                   tasks>>

\* A caller invokes createSampleTopology() on the visualizer.
createSampleTopology ==
    /\ ~MicrotaskPending
    /\ app.topologyCalls < MaxTopologyCalls
    /\ SampleTopology(app)
    /\ UNCHANGED <<envVars, uiVars, loadedModels, loadCount, deviceData, connVisible,
                   tasks>>

\* The showConnections checkbox changes: connectionManager.toggleVisibility.
toggleVisibility(show) ==
    /\ ~MicrotaskPending
    /\ connVisible' = show
    /\ connections' = ToggleVisibilityState(connections, show)
    /\ UNCHANGED <<envVars, uiVars, loadedModels, loadCount, deviceData, meshes,
                   materials, planes, devices, labels, labelTrip, tasks, app>>

\* ------------------------------------------------------------ inputs

fleetDevices ==
    << Desc(NoId, "fw-a", "firewall", <<>>), Desc(NoId, "fw-b", "firewall", <<>>),
       Desc(NoId, "sw-a", "switch", <<>>), Desc(NoId, "sw-b", "switch", <<>>),
       Desc(NoId, "sw-c", "switch", <<>>) >>

mixedDevices ==
    << Desc(NoId, "no-type", Undefined, <<>>),
       Desc(NoId, "edge-router", "router", <<>>),
       WithMac(Desc(NoId, "alice", "endpoint", <<>>), "A4:C3:61:00:11:22"),
       Desc(NoId, "Front-Desk-PC", "endpoint", <<4, 0, 4>>),
       Desc(NoId, "nas", "server", <<>>),
       Desc(NoId, "fw-a", "firewall", <<2, 3, 0>>) >>

Batches == {<<>>, fleetDevices, mixedDevices, sampleDevices}

ModelInfos ==
    {ModelInfo("fw-a", "firewall"), ModelInfo("sw-a", "switch"),
     ModelInfo("sw-b", "switch"), ModelInfo("mystery", "gadget")}

Selections == {{"all"}, {"firewall"}, {"firewall", "switch"}, {}}

AssetScenarios ==
    {ModelKeys, ModelKeys \ {"router"}, {"firewall", "endpoint-laptop"}, {}}

\* Asset files whose root mesh is a bare transform node, and (for the full
\* asset set) asset files whose root mesh has a material of its own.
MaterialScenarios(files) == IF files = ModelKeys THEN {{}, ModelKeys} ELSE {{}}

NoProbe == [arg |-> NoDescriptor, result |-> "none"]

\* A page of three devices: one with every optional field, one with a VLAN,
\* one on VLAN 0.
pageDevices ==
    << [Desc(NoId, "fw-a", "firewall", <<0, 2, 0>>) EXCEPT
           !.mac = "00:09:0f:aa:bb:01", !.ip = "10.0.0.1", !.status = "online",
           !.model = "FortiGate-61E", !.vlan = <<1>>],
       WithVlan(Desc(NoId, "sw-a", "switch", <<>>), 10),
       WithVlan(Desc(NoId, "sw-b", "switch", <<>>), 0) >>

PageModelInfos ==
    {WithTags(ModelInfo("fw-a", "firewall"), <<"fortinet", "utm">>),
     ModelInfo("sw-a", "switch")}

PageSelections == {{"all"}, {"firewall"}}

\* sin(Date.now() * 0.001) * 0.01, in hundredths
FloatSteps == {-1, 1}

\* A site of two firewalls, two switches and two access points.
topologyDevices ==
    << Desc(NoId, "fw-a", "firewall", <<>>), Desc(NoId, "sw-a", "switch", <<>>),
       Desc(NoId, "ap-a", "access_point", <<>>), Desc(NoId, "fw-b", "firewall", <<>>),
       Desc(NoId, "sw-b", "switch", <<>>), Desc(NoId, "ap-b", "access_point", <<>>) >>

\* Contents of models/manifest.json.
manifests ==
    { <<>>,
      << ModelInfo("fw-a", "firewall"), ModelInfo("fw-b", "firewall"),
         ModelInfo("sw-a", "switch"), ModelInfo("sw-b", "switch"),
         ModelInfo("ap-a", "access_point") >>,
      << ModelInfo("sw-a", "switch"), ModelInfo("fw-a", "firewall"),
         ModelInfo("sw-b", "switch"), ModelInfo("ap-a", "access_point"),
         ModelInfo("sw-c", "switch"), ModelInfo("ap-b", "access_point"),
         ModelInfo("sw-d", "switch") >>,
      << ModelInfo("fw-a", "firewall"), ModelInfo("ap-a", "access_point"),
         ModelInfo("rt-a", "router") >>,
      << ModelInfo("fw-a", "firewall"), ModelInfo("sw-a", "switch"),
         ModelInfo("sw-a", "switch"), ModelInfo("ap-a", "access_point") >>,
      << ModelInfo("mystery", "gadget"), ModelInfo("sw-a", "switch"),
         ModelInfo("ap-a", "access_point"), ModelInfo("ap-b", "access_point") >>,
      << ModelInfo("no-category", Undefined) >> }

\* Endpoint names and hardware addresses handed to detectEndpointType.
ProbeNames ==
    {Undefined, "Alice-MacBook", "LAPTOP-7", "Desktop-Notebook", "front-desk-pc",
     "Tower-2", "Pixel Phone", "my-android", "iPhone-PC", "MOBILE cart", "kiosk"}

ProbeMacs ==
    {"", "A4:C3:61:00:11:22", "28:cf:e9:aa:bb:cc", "E8:50:8B:01:02:03",
     "3C:D9:2B:00:00:09", "f4:ce:46:00:00:01", "00:11:22:33:44:55", "a4:c3",
     "02:a4:c3:61:00:11"}

ProbeInputs ==
    {WithMac(Desc(NoId, name, "endpoint", <<>>), mac) :
        name \in ProbeNames, mac \in ProbeMacs}

topologyDocs ==
    { [models |-> <<>>, connections |-> <<>>],
      [models |-> << Desc(NoId, "edge-fw", "firewall", <<>>),
                     Desc(NoId, "core-sw", "switch", <<>>) >>,
       connections |-> << [from |-> "edge-fw", to |-> "core-sw"],
                          [from |-> "edge-fw", to |-> "ghost"] >>],
      [models |-> sampleDevices, connections |-> sampleConnections] }

\* ------------------------------------------------------------ specifications

Init ==
    /\ impl \in {Enhanced, Basic}
    /\ assetFiles \in (IF impl = Enhanced THEN AssetScenarios ELSE {{}})
    /\ loadedModels = [k \in ModelKeys |-> CacheMiss]
    /\ loadCount = [k \in ModelKeys |-> 0]
    /\ deviceData = <<>>
    /\ meshes = <<>>
    /\ planes = <<>>
    /\ devices = <<>>
    /\ labels = <<>>
    /\ connections = <<>>
    /\ connVisible = TRUE
    /\ tasks = <<>>
    /\ app = [pc |-> "constructed", task |-> 0, inTry |-> FALSE, fetch |-> "none",
              doc |-> [models |-> <<>>, connections |-> <<>>], calls |-> <<>>,
              manifest |-> <<>>, i |-> 0, topologyCalls |-> 0,
              renderLoop |-> "idle", stats |-> <<>>]
    /\ assetMaterial \in MaterialScenarios(assetFiles)
    /\ materials = <<>>
    /\ deviceInfoElement = <<>>
    /\ animation = [enabled |-> FALSE, callbacks |-> 0, frames |-> 0]
    /\ labelTrip = NoTrip(TRUE)
    /\ probe = NoProbe
    /\ selection = <<>>

\* The DeviceManager driven through its methods and the UI events.
Next ==
    \/ \E batch \in Batches : loadDevices(batch)
    \/ \E t \in 1..Len(tasks) : ImportMeshSettles(t)
    \/ \E t \in 1..Len(tasks) : CreateDeviceStep(t)
    \/ \E modelInfo \in ModelInfos : loadDevice(modelInfo)
    \/ \E categories \in Selections : filterByCategories(categories)
    \/ \E show \in BOOLEAN : toggleLabels(show)

Spec == Init /\ [][Next]_vars

\* The page start-up: NetworkVisualizer.init and loadNetworkData.
NextApp ==
    \/ init
    \/ \E outcome \in {"ok", "notok", "throw"} : \E doc \in topologyDocs :
          FetchSettles(outcome, doc)
    \/ \E t \in 1..Len(tasks) : ImportMeshSettles(t)
    \/ \E t \in 1..Len(tasks) : CreateDeviceStep(t)
    \/ LoadConnectionsCall
    \/ \E d \in FloatSteps : RenderLoopFrame(d)

InitApp == Init /\ impl = Enhanced

SpecApp == InitApp /\ [][NextApp]_vars

\* One page: its devices loaded once, then pointer events and clicks on them.
NextPointer ==
    \/ tasks = <<>> /\ loadDevices(pageDevices)
    \/ \E t \in 1..Len(tasks) : ImportMeshSettles(t)
    \/ \E t \in 1..Len(tasks) : CreateDeviceStep(t)
    \/ \E modelInfo \in PageModelInfos : loadDevice(modelInfo)
    \/ \E m \in 1..Len(meshes) : \E isHovering \in BOOLEAN : onDeviceHover(m, isHovering)
    \/ \E m \in 1..Len(meshes) : onDeviceClick(m)

InitPage == Init /\ assetFiles \in {ModelKeys, {}}

SpecPointer == InitPage /\ [][NextPointer]_vars

\* One page: its devices loaded once, then the category filter, the animation
\* checkbox and rendered frames.
NextAnimation ==
    \/ tasks = <<>> /\ loadDevices(pageDevices)
    \/ \E t \in 1..Len(tasks) : ImportMeshSettles(t)
    \/ \E t \in 1..Len(tasks) : CreateDeviceStep(t)
    \/ \E modelInfo \in PageModelInfos : loadDevice(modelInfo)
    \/ \E categories \in PageSelections : filterByCategories(categories)
    \/ \E enabled \in BOOLEAN : toggleAnimation(enabled)
    \/ \E d \in FloatSteps : RenderFrame(d)

SpecAnimation == InitPage /\ [][NextAnimation]_vars

\* The page start-up of the first NetworkVisualizer: loadModels, then the
\* event handlers setupEventHandlers attaches once loadModels has returned.
NextTopology ==
    \/ initModels
    \/ \E outcome \in {"ok", "throw"} : \E manifest \in manifests :
          ManifestSettles(outcome, manifest)
    \/ LoadModelsResume
    \/ tasks = <<>> /\ loadDevices(topologyDevices)
    \/ \E t \in 1..Len(tasks) : ImportMeshSettles(t)
    \/ \E t \in 1..Len(tasks) : CreateDeviceStep(t)
    \/ createSampleTopology
    \/ app.pc = "done" /\ \E categories \in PageSelections : filterByCategories(categories)
    \/ app.pc = "done" /\ \E show \in BOOLEAN : toggleVisibility(show)

InitTopology == Init /\ assetFiles \in {ModelKeys, {}}

SpecTopology == InitTopology /\ [][NextTopology]_vars

\* detectEndpointType called directly on endpoint descriptors.
NextDetect == \E deviceInfo \in ProbeInputs : DetectEndpointTypeCall(deviceInfo)

SpecDetect == InitApp /\ [][NextDetect]_vars

\* ------------------------------------------------------------ claims

DeviceMeshes == {m \in 1..Len(meshes) : meshes[m].kind # "template"}

\* C1: after any sequence of loadDevices / createDevice calls at most one
\* device mesh is alive in the scene per device name.
C1_OneVisualPerName ==
    impl = Enhanced =>
        \A m1, m2 \in DeviceMeshes : meshes[m1].name = meshes[m2].name => m1 = m2

\* C2: over the whole session ImportMeshAsync is issued at most once per
\* type key.
C2_AtMostOneLoadPerKey == \A key \in ModelKeys : loadCount[key] <= 1

\* C3: a descriptor created while its key has no template still gets a visual
\* and is committed to the registry.
C3_FallbackAlwaysCommits ==
    \A t \in 1..Len(tasks) : \A j \in 1..Len(tasks[t].log) :
        ~tasks[t].log[j].template =>
            /\ tasks[t].log[j].result = "created"
            /\ MapHas(devices, tasks[t].log[j].name)

\* C4: loadDevices never fails; it attempts every descriptor of its batch, and
\* every descriptor whose creation succeeds (its key has a template) is in the
\* registry, whatever happened to the descriptors before it.
C4_BatchSurvivesFailure ==
    \A t \in 1..Len(tasks) :
        /\ tasks[t].pc # "rejected"
        /\ Len(tasks[t].log) = tasks[t].i - 1
        /\ tasks[t].pc = "done" => Len(tasks[t].log) = Len(tasks[t].batch)
        /\ \A j \in 1..Len(tasks[t].log) :
              /\ tasks[t].log[j].result = "created" => MapHas(devices, tasks[t].batch[j].name)
              /\ tasks[t].log[j].template => tasks[t].log[j].result = "created"

\* C4 witness: a finished batch in which a descriptor failed and a later one
\* was committed.
C4_Witness ==
    \E t \in 1..Len(tasks) :
        /\ tasks[t].pc = "done"
        /\ \E j, k \in 1..Len(tasks[t].log) :
              /\ j < k
              /\ tasks[t].log[j].result = "failed"
              /\ tasks[t].log[k].result = "created"
              /\ MapHas(devices, tasks[t].batch[k].name)
              /\ ~MapHas(devices, tasks[t].batch[j].name)

\* C5: the registered devices placed by autoPositionDevice have pairwise
\* distinct positions.
C5_AutoPositionsDistinct ==
    \A i, j \in 1..Len(devices) :
        (/\ i # j
         /\ meshes[devices[i].mesh].placed = "auto"
         /\ meshes[devices[j].mesh].placed = "auto")
        => meshes[devices[i].mesh].position # meshes[devices[j].mesh].position

\* C6: right after filterByCategories(selected) a registered device is visible
\* iff selected holds "all" or the device's category, and
\* getVisibleDeviceCount() is the number of those devices.
C6_FilterVisibility ==
    [][\A selected \in Selections :
          filterByCategories(selected) =>
              /\ \A i \in 1..Len(devices') :
                    devices'[i].visible <=>
                        ("all" \in selected \/ CategoryOf(devices'[i].info) \in selected)
              /\ getVisibleDeviceCount' =
                    Cardinality({i \in 1..Len(devices') :
                        "all" \in selected \/ CategoryOf(devices'[i].info) \in selected})]_vars

CountOfCategory(c) == Cardinality({i \in 1..Len(devices) : CategoryOf(devices[i].info) = c})

\* C6 witness: a registry of 2 firewalls and 3 switches, filtered to the
\* firewalls: 2 devices visible.
C6_Witness ==
    /\ Len(devices) = 5
    /\ CountOfCategory("firewall") = 2
    /\ CountOfCategory("switch") = 3
    /\ getVisibleDeviceCount = 2
    /\ \A i \in 1..Len(devices) :
          devices[i].visible <=> CategoryOf(devices[i].info) = "firewall"

\* label enabled AND parent visual enabled
EffectivelyVisible(p) == planes[p].enabled /\ meshes[planes[p].parent].enabled

\* C7: the label of a hidden device is never effectively visible.
C7_HiddenDeviceHidesLabel ==
    \A i \in 1..Len(labels) :
        ~MapGet(devices, labels[i].name).visible => ~EffectivelyVisible(labels[i].plane)

\* C7 witness: a hidden device whose label's own flag is on (toggleLabels(true)
\* after the filter).
C7_Witness ==
    \E i \in 1..Len(labels) :
        /\ ~MapGet(devices, labels[i].name).visible
        /\ planes[labels[i].plane].enabled
        /\ ~EffectivelyVisible(labels[i].plane)

\* Number of pairs whose two names are registered.
ValidPairs(pairs) ==
    Cardinality({j \in 1..Len(pairs) :
        MapHas(devices, pairs[j].from) /\ MapHas(devices, pairs[j].to)})

\* C8: after a loadConnections(pairs) call getConnectionCount() is the number
\* of pairs with both names registered (a call that raises has created none).
C8_ConnectionsLoaded ==
    app.calls # <<>> =>
        getConnectionCount = ValidPairs(app.calls[Len(app.calls)].pairs)

\* C9: when the topology document is missing or unparsable, loadNetworkData
\* ends with 5 registered devices and 4 connections.
C9_SampleFallbackPopulates ==
    (app.fetch \in {"notok", "throw"} /\ app.pc \in {"done", "rejected"})
        => (getDeviceCount = 5 /\ getConnectionCount = 4)

\* C10: init / loadNetworkData never ends in an unhandled error.
C10_NoUnhandledError == app.pc # "rejected"

\* C14: when the labels are shown, toggleLabels(false) followed by
\* toggleLabels(true) leaves every label with the effective visibility it had
\* before the two calls, whatever the registry and the filter.
C14_LabelRoundTrip ==
    (labelTrip.stage = "offon" /\ labelTrip.wasShown) => LabelsSeen = labelTrip.before

\* C14 witness: the two calls were made over a filtered registry: one label
\* was seen before them and the label of a hidden device was not.
C14_Witness ==
    /\ labelTrip.stage = "offon"
    /\ labelTrip.wasShown
    /\ labelTrip.before # {}
    /\ \E i \in 1..Len(devices) :
          ~devices[i].visible /\ MapHas(labels, devices[i].name)
                              /\ devices[i].name \notin labelTrip.before

RECURSIVE CommitsOf(_, _)
\* Names of the first j descriptors of task t's batch that were created.
CommitsOf(t, j) ==
    IF j = 0 THEN <<>>
    ELSE CommitsOf(t, j - 1) \o
         (IF tasks[t].log[j].result = "created" THEN <<tasks[t].batch[j].name>> ELSE <<>>)

RECURSIVE CommitsUpTo(_)
CommitsUpTo(t) ==
    IF t = 0 THEN <<>> ELSE CommitsUpTo(t - 1) \o CommitsOf(t, Len(tasks[t].log))

\* Names of the device visuals in the order they came into the scene.
RECURSIVE VisualNames(_)
VisualNames(m) ==
    IF m = 0 THEN <<>>
    ELSE VisualNames(m - 1) \o
         (IF meshes[m].kind = "template" THEN <<>> ELSE <<meshes[m].name>>)

Wired(i) ==
    /\ meshes[devices[i].mesh].interactive
    /\ MapHas(labels, devices[i].name)
    /\ planes[MapGet(labels, devices[i].name).plane].parent = devices[i].mesh

\* C16: the devices of a loadDevices call come into being in descriptor order,
\* and in every state another callback can observe each registered device has
\* its label in the label map and its handlers attached.
C16_OrderedAndWired ==
    /\ impl = Enhanced => VisualNames(Len(meshes)) = CommitsUpTo(Len(tasks))
    /\ \A i \in 1..Len(devices) : Wired(i)

\* C16 witness: a batch under way with two devices of different names
\* committed and descriptors still to come.
C16_Witness ==
    \E t \in 1..Len(tasks) :
        /\ tasks[t].pc = "create"
        /\ Len(CommitsOf(t, Len(tasks[t].log))) >= 2
        /\ \E i, j \in 1..Len(devices) : i # j /\ Wired(i) /\ Wired(j)

\* C17: once loadedModels holds a value for a key, that value never changes.
C17_CacheAppendOnly ==
    [][\A key \in ModelKeys :
          loadedModels[key].has => loadedModels'[key] = loadedModels[key]]_vars

\* C19: a device whose descriptor carries a position stands exactly there;
\* only a descriptor without a position is placed by the auto-layout.
C19_ExplicitPositionExact ==
    impl = Enhanced =>
        \A i \in 1..Len(devices) :
            IF devices[i].info.position # <<>>
            THEN meshes[devices[i].mesh].position = devices[i].info.position
            ELSE meshes[devices[i].mesh].placed = "auto"

\* C20: when the fetch succeeds and the document parses, loadNetworkData never
\* calls loadSampleData.
C20_SampleOnlyWhenMissing == app.fetch = "ok" => app.pc # "loadSampleData"

\* The keyword groups the lower-cased name of the probed descriptor matches.
ProbeGroups ==
    LET name == ToLowerCase(IF probe.arg.name = Undefined THEN "" ELSE probe.arg.name)
    IN  {g \in 1..Len(nameGroups) : \E k \in nameGroups[g].keywords : Includes(name, k)}

\* The vendors one of whose prefixes starts the lower-cased hardware address.
ProbeVendors ==
    {macVendors[v].vendor : v \in VendorHits(ToLowerCase(probe.arg.mac))}

\* C13: detectEndpointType always returns a subtype; a hardware address that
\* starts with a vendor prefix decides it whatever the name says (Apple, the
\* first vendor of the table: laptop, any other vendor: desktop); otherwise
\* the first keyword group the name matches decides; otherwise it is desktop.
C13_DetectPriority ==
    probe.result # "none" =>
        /\ probe.result \in {"laptop", "desktop", "mobile"}
        /\ "apple" \in ProbeVendors => probe.result = "laptop"
        /\ (ProbeVendors # {} /\ "apple" \notin ProbeVendors) => probe.result = "desktop"
        /\ (ProbeVendors = {} /\ ProbeGroups # {}) =>
              \E g \in ProbeGroups :
                  /\ probe.result = nameGroups[g].subtype
                  /\ \A h \in ProbeGroups : g <= h
        /\ (ProbeVendors = {} /\ ProbeGroups = {}) => probe.result = "desktop"

\* C13 witness: an upper-case Samsung address on a device named like a phone
\* is classified by the vendor.
C13_Witness ==
    /\ probe.result = "desktop"
    /\ probe.arg.mac = "E8:50:8B:01:02:03"
    /\ probe.arg.name = "Pixel Phone"

\* C12: a visual whose last pointer event was an enter has scale 1.1 and a
\* non-zero emissive tint; one whose last pointer event was a leave has scale 1
\* and emissive tint zero.
C12_HoverTwoState ==
    \A m \in 1..Len(meshes) :
        /\ meshes[m].pointer = "over" =>
              /\ meshes[m].scaling = 11
              /\ meshes[m].material # 0
              /\ materials[meshes[m].material] = HoverTint
        /\ meshes[m].pointer = "out" =>
              /\ meshes[m].scaling = 10
              /\ meshes[m].material # 0 => materials[meshes[m].material] = EmissiveZero

\* C15: a click writes a detail payload with the device's name and category
\* and with each optional field exactly when the descriptor has it, and
\* changes neither the hover state nor the registry.
C15_ClickPayload ==
    [][\A m \in 1..Len(meshes) :
          (impl = Enhanced /\ onDeviceClick(m)) =>
              LET info == meshes[m].onPick
                  rows == deviceInfoElement'
                  has(label) == \E r \in 1..Len(rows) : rows[r].label = label
              IN  /\ \E r \in 1..Len(rows) : rows[r] = Row("h4", info.name)
                  /\ \E r \in 1..Len(rows) : rows[r] = Row("Type", info.type)
                  /\ has("MAC Address") <=> info.mac # ""
                  /\ has("IP Address") <=> info.ip # ""
                  /\ has("Status") <=> info.status # ""
                  /\ has("Model") <=> info.model # ""
                  /\ has("VLAN") <=> info.vlan # <<>>
                  /\ meshes' = meshes
                  /\ materials' = materials
                  /\ devices' = devices
                  /\ labels' = labels]_vars

\* The registered, visible device whose visual the mesh m is, if any.
Animated(m) == \E i \in 1..Len(devices) : devices[i].mesh = m /\ devices[i].visible

\* C18: a rendered frame changes nothing but the position / rotation of the
\* visuals of registered, visible devices, and nothing while the animation is
\* disabled.
C18_TickFrame ==
    [][\A d \in FloatSteps :
          RenderFrame(d) =>
              /\ devices' = devices
              /\ labels' = labels
              /\ planes' = planes
              /\ materials' = materials
              /\ connections' = connections
              /\ Len(meshes') = Len(meshes)
              /\ \A m \in 1..Len(meshes) :
                    /\ meshes'[m] = [meshes[m] EXCEPT !.floatY = meshes'[m].floatY,
                                                      !.rotationY = meshes'[m].rotationY]
                    /\ ~Animated(m) => meshes'[m] = meshes[m]
              /\ ~animation.enabled => meshes' = meshes]_vars

\* C18 witness: frames were rendered over a filtered registry; a visible
\* device has moved and a hidden one has not.
C18_Witness ==
    /\ animation.frames > 0
    /\ \E i, j \in 1..Len(devices) :
          /\ devices[i].visible
          /\ (meshes[devices[i].mesh].floatY # 0 \/ meshes[devices[i].mesh].rotationY # 0)
          /\ ~devices[j].visible
          /\ meshes[devices[j].mesh].floatY = 0
          /\ meshes[devices[j].mesh].rotationY = 0

\* Registry entries of a category.
OfCategory(devs, c) == {i \in 1..Len(devs) : CategoryOf(devs[i].info) = c}

\* Number of links from the visual of registry entry i to that of entry j.
LinksBetween(devs, conns, i, j) ==
    Cardinality({c \in 1..Len(conns) :
        conns[c].mesh1 = devs[i].mesh /\ conns[c].mesh2 = devs[j].mesh})

\* One link per (firewall, switch) and per (switch, access_point) pair, and
\* the count that leaves room for no other link.
Bipartite(devs, conns) ==
    /\ \A i \in OfCategory(devs, "firewall") : \A j \in OfCategory(devs, "switch") :
          LinksBetween(devs, conns, i, j) = 1
    /\ \A i \in OfCategory(devs, "switch") : \A j \in OfCategory(devs, "access_point") :
          LinksBetween(devs, conns, i, j) = 1
    /\ Len(conns) =
          Cardinality(OfCategory(devs, "firewall")) * Cardinality(OfCategory(devs, "switch"))
          + Cardinality(OfCategory(devs, "switch"))
            * Cardinality(OfCategory(devs, "access_point"))

\* C11: a call of createConnections on an empty connection list creates
\* exactly one link for every (firewall, switch) and every (switch,
\* access_point) pair of registered devices and no other link, so that
\* getConnectionCount() = |firewalls| * |switches| + |switches| * |access_points|.
C11_BipartiteLinks ==
    [][(connections = <<>> /\ app'.topologyCalls = app.topologyCalls + 1)
          => Bipartite(devices', connections')]_vars

\* C11 witness: one call of createConnections has run over 1 firewall, 4
\* switches and 2 access points and left 12 links.
C11_Witness ==
    /\ app.topologyCalls = 1
    /\ Cardinality(OfCategory(devices, "firewall")) = 1
    /\ Cardinality(OfCategory(devices, "switch")) = 4
    /\ Cardinality(OfCategory(devices, "access_point")) = 2
    /\ getConnectionCount = 12

\* C21: whatever the order of filterByCategories calls and device loads,
\* every registered device is visible iff the most recently applied selection
\* holds "all" or the device's category.
C21_VisibleMatchesSelection ==
    selection # <<>> =>
        \A i \in 1..Len(devices) :
            devices[i].visible <=>
                ("all" \in selection[1] \/ CategoryOf(devices[i].info) \in selection[1])

\* C22: in every state of the ConnectionManager every link's line is enabled
\* iff the manager's visible flag is set, also for links created after
\* toggleVisibility(false).
C22_LinksFollowVisible ==
    \A c \in 1..Len(connections) : connections[c].lineEnabled = connVisible

\* C23: after any sequence of toggleAnimation(true) / toggleAnimation(false)
\* calls at most one per-frame animation callback is registered with the
\* scene.
C23_AtMostOneCallback == animation.callbacks <= 1

\* C24: in every state, also with devices registered, the callback of the
\* render loop (updateDynamicLights, then the stats update) completes without
\* raising an error.
C24_RenderLoopCompletes == app.renderLoop # "TypeError"

\* C25: while the last toggleLabels call was toggleLabels(false), a
\* filterByCategories call never turns a disabled label on: no label is
\* enabled again before the next toggleLabels(true).
C25_FilterKeepsLabelsOff ==
    [][\A selected \in Selections :
          (~labelTrip.shown /\ filterByCategories(selected)) =>
              \A p \in 1..Len(planes) : planes'[p].enabled => planes[p].enabled]_vars

====
